---- MODULE Spec2Model ----
(***************************************************************************)
(* Model of the campaign automation service: the five-step provisioning    *)
(* pipeline (meta/campaign.py, driven by api/routes.py create_campaign)    *)
(* and the activation scheduler (scheduler/manager.py, scheduler/jobs.py,  *)
(* the schedule/cancel routes of api/routes.py) over the JSON file store   *)
(* (storage/file_store.py).                                                *)
(*                                                                         *)
(* Threads.  The route handlers are `async def` functions without any      *)
(* await: the event loop runs one handler at a time, so there is a single  *)
(* in-flight request (variable h).  The scheduler thread and the worker    *)
(* threads of the APScheduler pool run concurrently with it, so a handler  *)
(* is split at every access to shared state (job table, files), and so is  *)
(* the activation task.                                                    *)
(*                                                                         *)
(* Time.  now is the absolute instant in seconds; datetime.now() is the    *)
(* naive wall clock of the server, now + serverOffset.                     *)
(***************************************************************************)
EXTENDS Integers, Sequences, FiniteSets, TLC

\* ---------------------------------------------------------------- bounds
MaxJobs == 2
MaxTime == 3
MaxRestarts == 1
MaxRequests == 2
MaxFaults == 1
MaxPoolJobs == 12
MaxStatusCalls == 2
MaxSyncs == 2
MaxSavers == 2
MaxChunks == 2
MaxAccountCalls == 3

\* ------------------------------------------------------ program constants
\* pytz 'Asia/Singapore': UTC+8, in seconds
SGT_OFFSET == 28800
\* job_defaults sets coalesce and max_instances only: APScheduler's default
\* misfire_grace_time of 1 second applies to every job
MisfireGrace == 1
\* stop_after_attempt(3)
MaxUploadAttempts == 3
\* ThreadPoolExecutor(10)
PoolSize == 10
\* job_defaults['max_instances']
MaxInstances == 1

\* utcoffset of the server's local zone: a UTC host and a Singapore host
ServerOffsets == {0, SGT_OFFSET}

Campaigns == {"c1", "c2"}
\* campaign ids a request may name: the stored ones and an unknown one
RequestCampaigns == Campaigns \cup {"c0"}

\* activation instants a caller asks for, relative to the call: seconds
Deltas == {0, 1}

KindOrder == <<"video_id", "creative_id", "campaign_id", "adset_id", "ad_id">>
Kinds == {KindOrder[i] : i \in 1..Len(KindOrder)}

\* ------------------------------------------------------------- datetimes
NoneAt == [kind |-> "none", wall |-> 0, utcoffset |-> 0]
NaiveAt(w) == [kind |-> "naive", wall |-> w, utcoffset |-> 0]
AwareAt(w, off) == [kind |-> "aware", wall |-> w, utcoffset |-> off]

VARIABLES
  now,          \* absolute time, seconds
  serverOffset, \* utcoffset of the host's local zone
  running,      \* BackgroundScheduler.running (the process is up)
  restarts,     \* number of start() calls after a shutdown()
  faultsLeft,   \* number of StorageErrors the file system may still raise
  campaigns,    \* campaigns.json: campaign id -> record
  schedules,    \* schedules.json: records in insertion order (dict order)
  jobs,         \* jobs.db: job id -> [run_date, campaign_id, meta_campaign_id]
  nextJob,      \* next fresh job id (uuid4 suffix)
  task,         \* job id -> the activation task run for it
  h,            \* the in-flight request, or the status code of the last one
  missed,       \* job ids dropped by the executor as misfired
  runs,         \* job id -> number of times its task was started
  cancelOk,     \* job id -> number of cancel_job calls that returned True
  atStart,      \* the jobs a start() found in the store, overdue or not
  outlived,     \* the jobs that were armed for a campaign when a cancellation
                \* for that campaign was answered 200
  reqNo,        \* number of create_campaign requests received
  created_ids,  \* request -> created_ids dict of its pipeline run
  issued,       \* request -> remote creation calls issued, in order
  pipe,         \* request -> "none" | "running" | "returned" | "raised"
  stored,       \* requests whose create_campaign saved a campaign record
  armed,        \* executor model: number of jobs added, ids 1..armed
  fired,        \* executor model: number of jobs submitted, ids 1..fired
  instances,    \* executor model: BaseExecutor._instances, job id -> count
  work_queue,   \* executor model: work items no pool thread has taken yet
  executing,    \* executor model: job id -> pool threads running its task
  upload_raised,\* request -> what its last upload attempt raised inside the try
  status_log,   \* the calls of MetaAPIClient.update_campaign_status so far
  meta_data,    \* sync model: the campaign as the platform returns it
  campaign_data,\* sync model: the campaign's record in campaigns.json
  sync_response,\* sync model: the last answer of sync_campaign
  dir,          \* file model: "json" and "tmp" -> the inode the name refers to
  inode,        \* file model: inode -> its content, a sequence of chunks
  th,           \* file model: thread -> its load-fetch-save operation
  adset_sent,   \* request -> the start_time it got and the one sent with the adset
  sent_status,  \* request -> the 'status' parameters of its creation calls
  accounts,         \* accounts.json: account id -> account data
  account_response  \* the last POST /accounts: its number, id, body and answer

vars == <<now, serverOffset, running, restarts, faultsLeft, campaigns, schedules,
          jobs, nextJob, task, h, missed, runs, cancelOk, atStart, outlived,
          reqNo, created_ids, issued, pipe, stored,
          armed, fired, instances, work_queue, executing, upload_raised,
          status_log, meta_data, campaign_data, sync_response,
          dir, inode, th, adset_sent, sent_status, accounts, account_response>>

clockVars == <<now, serverOffset, running, restarts>>
histVars == <<missed, runs, cancelOk, atStart, outlived>>
poolVars == <<armed, fired, instances, work_queue, executing>>
\* the state of the parts that are modelled on their own
syncVars == <<meta_data, campaign_data, sync_response>>
fileVars == <<dir, inode, th>>
\* what the remote calls of a pipeline run carried
pipeHist == <<upload_raised, adset_sent, sent_status>>
acctVars == <<accounts, account_response>>
sideVars == <<poolVars, pipeHist, status_log, syncVars, fileVars, acctVars>>
pipeVars == <<reqNo, created_ids, issued, pipe, stored>>
\* the state of the application proper
mainVars == <<clockVars, faultsLeft, campaigns, schedules, jobs, nextJob, task, h,
              histVars, pipeVars>>

JobIds == 1..MaxJobs
Requests == 1..MaxRequests

\* datetime.now(): naive local wall clock
LocalNow == now + serverOffset

\* `naive <= aware` raises TypeError in Python
CompareRaises(at) == at.kind = "aware"

\* a variant of Localize: a naive time is taken as UTC
LocalizeAsUtc(at) == at.wall - at.utcoffset

\* SINGAPORE_TZ.localize(naive) / an aware datetime as it is: the absolute
\* instant of the job's run_date
Localize(at) ==
  IF at.kind = "naive" THEN at.wall - SGT_OFFSET ELSE at.wall - at.utcoffset

\* ------------------------------------------------------------ dict helpers
EmptyMap == [x \in {} |-> 0]

Remove(f, k) == [x \in DOMAIN f \ {k} |-> f[x]]

\* position of key jid in the ordered dict s, 0 when absent
KeyIndex(s, jid) ==
  IF \E i \in 1..Len(s) : s[i].job_id = jid
  THEN CHOOSE i \in 1..Len(s) :
         s[i].job_id = jid /\ \A k \in 1..(i - 1) : s[k].job_id # jid
  ELSE 0

\* schedules[job_id] = rec: replaces in place, else appends
SetItem(s, rec) ==
  IF KeyIndex(s, rec.job_id) > 0
  THEN [s EXCEPT ![KeyIndex(s, rec.job_id)] = rec]
  ELSE Append(s, rec)

\* FileStore.load / FileStore.save succeed, or raise StorageError
IOResults == IF faultsLeft > 0 THEN {TRUE, FALSE} ELSE {TRUE}
Faulted(ok) == IF ok THEN faultsLeft ELSE faultsLeft - 1

\* ----------------------------------------------------------------- records
\* datetime.utcnow().isoformat(): a timestamp; only its presence is modelled
UtcNow == <<"utcnow">>

EmptyId == [req |-> 0, kind |-> "none"]
RemoteId(r, k) == [req |-> r, kind |-> k]

\* the five ids of a complete run of request r
ChainOf(r) == [k \in Kinds |-> RemoteId(r, k)]

\* campaign_data of create_campaign; activated_at and last_synced are added
\* by activation and sync (absent keys are the empty sequence).  The fields
\* no code path reads back (created_at, account ids, name, config_path) are
\* left out.
CampaignData(ids) ==
  [status |-> "PAUSED", meta_ids |-> ids, activated_at |-> <<>>,
   last_synced |-> <<>>]

\* the schedule record written by schedule_campaign and create_campaign;
\* created_at, result and cancelled_at are written and never read: left out
ScheduleData(jid, c, mid, at) ==
  [job_id |-> jid, campaign_id |-> c, meta_campaign_id |-> mid,
   scheduled_time |-> at, status |-> "pending", executed_at |-> <<>>,
   error |-> <<>>]

Job(at, c, mid) ==
  [run_date |-> Localize(at), campaign_id |-> c, meta_campaign_id |-> mid]

NoTask ==
  [pc |-> "none", campaign_id |-> "", meta_campaign_id |-> EmptyId,
   schedules |-> <<>>, schedule_key |-> 0, campaigns |-> EmptyMap,
   meta_status |-> "", error |-> "", updated |-> FALSE, result |-> "none"]

Idle ==
  [op |-> "idle", pc |-> "done", campaign_id |-> "", at |-> NoneAt,
   meta_campaign_id |-> EmptyId, job_id |-> 0, schedules |-> <<>>,
   campaigns |-> EmptyMap, code |-> 0, req |-> 0, attempt |-> 0,
   meta_status |-> ""]

Request(op, c, at) ==
  [op |-> op, pc |-> "start", campaign_id |-> c, at |-> at,
   meta_campaign_id |-> EmptyId, job_id |-> 0, schedules |-> <<>>,
   campaigns |-> EmptyMap, code |-> 0, req |-> 0, attempt |-> 0,
   meta_status |-> ""]

\* the handler answers: its locals are gone, the status code stays visible
Respond(hh, code) == [Idle EXCEPT !.code = code]

\* what a caller may send as activate_at / start_time at this moment: a naive
\* wall-clock time meant as Singapore time, or the same with an explicit +08:00
ActivateAts ==
  {NaiveAt(now + SGT_OFFSET + d) : d \in Deltas}
  \cup {AwareAt(now + SGT_OFFSET + 1, SGT_OFFSET)}

\* the request before this one has been answered
Free == h.pc = "done"

\* ------------------------------------------------------------------- Init
\* The campaign store after create_campaign succeeded, without start_time,
\* once for each campaign of Campaigns: request 1 created c1, and so on.
ReqOf(c) == IF c = "c1" THEN 1 ELSE 2

\* the value of a field that a dict does not have
Absent == "absent"

\* one campaign right after create_campaign stored it: the record has no
\* daily_budget and no last_synced; the platform holds what was created
SyncStart ==
  /\ meta_data = [name |-> "n1", status |-> "PAUSED", daily_budget |-> "1000"]
  /\ campaign_data = [campaign_name |-> "n1", status |-> "PAUSED",
                      daily_budget |-> Absent, last_synced |-> 0]
  /\ sync_response = [code |-> 0, changes |-> EmptyMap]

\* accounts.json as _ensure_files_exist writes it, and no request so far
AccountsStart ==
  /\ accounts = EmptyMap
  /\ account_response = [n |-> 0, account_id |-> "", data |-> "", code |-> 0]

\* the threads that use the FileStore: the event loop and pool threads
Savers == 1..MaxSavers
NoFile == 0
\* the inode of campaigns.json before any save; thread t's open creates t
FirstInode == MaxSavers + 1
Nul == [by |-> 0, status |-> "", part |-> 0]

\* json.dump of a mapping, written in MaxChunks writes
Serialize(d) == [i \in 1..MaxChunks |-> [by |-> d.by, status |-> d.status, part |-> i]]

\* the mapping create_campaign stored
FirstMapping == [by |-> 0, status |-> "PAUSED"]

NoOp == [pc |-> "idle", data |-> FirstMapping, fd |-> NoFile, pos |-> 0, seen |-> ""]

\* campaigns.json exists, campaigns.tmp does not, no thread is at work
FilesStart ==
  /\ dir = [json |-> FirstInode, tmp |-> NoFile]
  /\ inode = [n \in 1..FirstInode |-> IF n = FirstInode THEN Serialize(FirstMapping)
                                       ELSE <<>>]
  /\ th = [t \in Savers |-> NoOp]

PoolJobIds == 1..MaxPoolJobs

\* the executor and its thread pool right after construction
PoolIdle ==
  /\ armed = 0
  /\ fired = 0
  /\ instances = [j \in PoolJobIds |-> 0]
  /\ work_queue = <<>>
  /\ executing = [j \in PoolJobIds |-> 0]

InitCommon ==
  /\ now = 0
  /\ running = TRUE
  /\ restarts = 0
  /\ schedules = <<>>
  /\ jobs = EmptyMap
  /\ nextJob = 1
  /\ task = [j \in JobIds |-> NoTask]
  /\ h = Idle
  /\ missed = {}
  /\ runs = [j \in JobIds |-> 0]
  /\ cancelOk = [j \in JobIds |-> 0]
  /\ atStart = {}
  /\ outlived = {}
  /\ PoolIdle
  /\ upload_raised = [r \in Requests |-> "none"]
  /\ adset_sent = [r \in Requests |-> <<>>]
  /\ sent_status = [r \in Requests |-> <<>>]
  /\ status_log = <<>>
  /\ SyncStart
  /\ FilesStart
  /\ AccountsStart

Provisioned ==
  /\ InitCommon
  /\ campaigns = [c \in Campaigns |-> CampaignData(ChainOf(ReqOf(c)))]
  /\ reqNo = Cardinality(Campaigns)
  /\ created_ids =
       [r \in Requests |-> IF r <= Cardinality(Campaigns) THEN ChainOf(r) ELSE EmptyMap]
  /\ issued =
       [r \in Requests |-> IF r <= Cardinality(Campaigns) THEN KindOrder ELSE <<>>]
  /\ pipe =
       [r \in Requests |-> IF r <= Cardinality(Campaigns) THEN "returned" ELSE "none"]
  /\ stored = {r \in Requests : r <= Cardinality(Campaigns)}

\* a host in the Singapore zone, a file system that does not fail
Init ==
  /\ Provisioned
  /\ serverOffset = SGT_OFFSET
  /\ faultsLeft = 0

\* any host zone
InitClock ==
  /\ Provisioned
  /\ serverOffset \in ServerOffsets
  /\ faultsLeft = 0

\* a host in the Singapore zone, a file system that may fail
InitFaults ==
  /\ Provisioned
  /\ serverOffset = SGT_OFFSET
  /\ faultsLeft = MaxFaults

\* an empty campaign store, a file system that does not fail
InitCreate ==
  /\ InitCommon
  /\ serverOffset = SGT_OFFSET
  /\ faultsLeft = 0
  /\ campaigns = EmptyMap
  /\ reqNo = 0
  /\ created_ids = [r \in Requests |-> EmptyMap]
  /\ issued = [r \in Requests |-> <<>>]
  /\ pipe = [r \in Requests |-> "none"]
  /\ stored = {}

\* an empty campaign store, a file system that may fail
InitPipeline ==
  /\ InitCommon
  /\ serverOffset = SGT_OFFSET
  /\ faultsLeft = MaxFaults
  /\ campaigns = EmptyMap
  /\ reqNo = 0
  /\ created_ids = [r \in Requests |-> EmptyMap]
  /\ issued = [r \in Requests |-> <<>>]
  /\ pipe = [r \in Requests |-> "none"]
  /\ stored = {}

\* ------------------------------------------------------- POST /campaigns
\* what the remote answers to a creation call of request r for kind k: an
\* error, a body without an id (or with an empty one), or a body with the id
Responses(r, k) ==
  {[exc |-> "MetaAPIError", id |-> EmptyId],
   [exc |-> "none", id |-> EmptyId],
   [exc |-> "none", id |-> RemoteId(r, k)]}

\* requests.post of upload_video may also raise a RequestException
UploadResponses(r) ==
  Responses(r, "video_id") \cup {[exc |-> "RequestException", id |-> EmptyId]}

\* `if not object_id: raise MetaAPIError` of extract_id, `if not video_id`
\* of upload_video, `if not creative_id` of create_video_ad_creative
Fails(resp) == resp.exc # "none" \/ resp.id = EmptyId

\* a variant of Wrapped: the exception passes through as it was raised
Unwrapped(exc) == exc

\* client.py 105-108: whatever is raised inside upload_video leaves it as a
\* MetaAPIError
Wrapped(exc) == "MetaAPIError"

\* what is raised inside the try block of upload_video for a response:
\* by requests.post, by _handle_api_response, or by `if not video_id`
RaisedInTry(resp) ==
  IF resp.exc # "none" THEN resp.exc
  ELSE IF resp.id = EmptyId THEN "MetaAPIError"
  ELSE "none"

\* the exception upload_video raises for a response, "none" when it returns
UploadRaises(resp) ==
  IF resp.exc # "none" THEN Wrapped(resp.exc)
  ELSE IF resp.id = EmptyId THEN Wrapped("MetaAPIError")
  ELSE "none"

\* a variant of ShouldRetry: any exception is retried
ShouldRetryAny(exc, attempt) == attempt < MaxUploadAttempts

\* @retry(stop_after_attempt(3), retry_if_exception_type(RequestException))
ShouldRetry(exc, attempt) ==
  exc = "RequestException" /\ attempt < MaxUploadAttempts

\* a variant of NextPc: the ad is created right after the campaign
NextPcSkipping(k) ==
  CASE k = "video_id" -> "thumbnail"
    [] k = "creative_id" -> "campaign_id"
    [] k = "campaign_id" -> "ad_id"
    [] k = "adset_id" -> "ad_id"
    [] k = "ad_id" -> "loadCampaigns"

\* the statement that follows the step of kind k in the try block
NextPc(k) ==
  CASE k = "video_id" -> "thumbnail"
    [] k = "creative_id" -> "campaign_id"
    [] k = "campaign_id" -> "adset_id"
    [] k = "adset_id" -> "ad_id"
    [] k = "ad_id" -> "loadCampaigns"

\* a variant of OnPipelineError: the handler goes on with what was created
OnPipelineErrorStoring(hh) == [hh EXCEPT !.pc = "loadCampaigns"]

\* routes.py 181-186: CampaignCreationError becomes HTTP 500
OnPipelineError(hh) == Respond(hh, 500)

\* what a caller may send as start_time
StartTimes ==
  {NoneAt} \cup (IF nextJob <= MaxJobs
                 THEN ActivateAts \cup {AwareAt(now + 1, 0)}
                 ELSE {})

\* adset_params without a start_time key
NoStartTime == [set |-> FALSE, wall |-> 0, utcoffset |-> 0]

\* campaign.py 155-158: `if start_time:` (a datetime is always true), then
\* strftime('%Y-%m-%dT%H:%M:%S+0800'): the datetime's own wall-clock fields
\* followed by the literal +0800
AdsetStartTime(at) ==
  IF at.kind = "none" THEN NoStartTime
  ELSE [set |-> TRUE, wall |-> at.wall, utcoffset |-> SGT_OFFSET]

\* a request arrives: the configuration is loaded and validated, the pipeline
\* starts with validate_account_id
CreateBegin ==
  /\ running /\ Free
  /\ reqNo < MaxRequests
  /\ reqNo' = reqNo + 1
  /\ \E c \in Campaigns, st \in StartTimes, configOk \in BOOLEAN,
        accountOk \in BOOLEAN :
       LET rq == [Request("create", c, st) EXCEPT !.req = reqNo + 1]
       IN IF ~configOk
          THEN /\ h' = Respond(rq, 400)
               /\ UNCHANGED pipe
          ELSE IF ~accountOk
          THEN /\ h' = OnPipelineError(rq)
               /\ pipe' = [pipe EXCEPT ![rq.req] = "raised"]
          ELSE /\ h' = [rq EXCEPT !.pc = "video_id", !.attempt = 1]
               /\ pipe' = [pipe EXCEPT ![rq.req] = "running"]
  /\ UNCHANGED <<clockVars, faultsLeft, campaigns, schedules, jobs, nextJob, task,
                 histVars, created_ids, issued, stored>>
  /\ UNCHANGED sideVars

\* step 1: upload_video_creative -> client.upload_video, under its decorator
UploadVideo ==
  /\ h.op = "create" /\ h.pc = "video_id"
  /\ issued' = [issued EXCEPT ![h.req] = Append(@, "video_id")]
  /\ \E resp \in UploadResponses(h.req) :
       LET exc == UploadRaises(resp)
       IN /\ upload_raised' = [upload_raised EXCEPT ![h.req] = RaisedInTry(resp)]
          /\ IF exc = "none"
             THEN /\ created_ids' = [created_ids EXCEPT ![h.req] =
                                       ("video_id" :> resp.id) @@ @]
                  /\ h' = [h EXCEPT !.pc = NextPc("video_id")]
                  /\ UNCHANGED pipe
             ELSE IF ShouldRetry(exc, h.attempt)
             THEN /\ h' = [h EXCEPT !.attempt = @ + 1]
                  /\ UNCHANGED <<created_ids, pipe>>
             ELSE /\ h' = OnPipelineError(h)
                  /\ pipe' = [pipe EXCEPT ![h.req] = "raised"]
                  /\ UNCHANGED created_ids
  /\ UNCHANGED <<clockVars, faultsLeft, campaigns, schedules, jobs, nextJob, task,
                 histVars, reqNo, stored, poolVars, status_log, syncVars,
                 fileVars, adset_sent, sent_status, acctVars>>

\* create_video_ad_creative starts with client.get_video_thumbnail, a read
GetThumbnail ==
  /\ h.op = "create" /\ h.pc = "thumbnail"
  /\ \E ok \in BOOLEAN :
       IF ok
       THEN /\ h' = [h EXCEPT !.pc = "creative_id"]
            /\ UNCHANGED pipe
       ELSE /\ h' = OnPipelineError(h)
            /\ pipe' = [pipe EXCEPT ![h.req] = "raised"]
  /\ UNCHANGED <<clockVars, faultsLeft, campaigns, schedules, jobs, nextJob, task,
                 histVars, reqNo, created_ids, issued, stored>>
  /\ UNCHANGED sideVars

\* the steps whose parameters carry a 'status' (the creative has none)
WithStatus == {"campaign_id", "adset_id", "ad_id"}

\* campaign.py 110, 151, 191: 'status': 'PAUSED'
ObjectStatus(k) == "PAUSED"

\* steps 2 to 5: the creation call, the id check, created_ids[k] = id; the
\* pipeline returns after the last one
CreateObject(k) ==
  /\ h.op = "create" /\ h.pc = k
  /\ issued' = [issued EXCEPT ![h.req] = Append(@, k)]
  /\ \E resp \in Responses(h.req, k) :
       IF Fails(resp)
       THEN /\ h' = OnPipelineError(h)
            /\ pipe' = [pipe EXCEPT ![h.req] = "raised"]
            /\ UNCHANGED created_ids
       ELSE /\ created_ids' = [created_ids EXCEPT ![h.req] = (k :> resp.id) @@ @]
            /\ h' = [h EXCEPT !.pc = NextPc(k)]
            /\ pipe' = [pipe EXCEPT ![h.req] =
                          IF k = "ad_id" THEN "returned" ELSE @]
  /\ adset_sent' = IF k = "adset_id"
                   THEN [adset_sent EXCEPT ![h.req] =
                           <<[at |-> h.at, start_time |-> AdsetStartTime(h.at)]>>]
                   ELSE adset_sent
  /\ sent_status' = IF k \in WithStatus
                    THEN [sent_status EXCEPT ![h.req] = Append(@, ObjectStatus(k))]
                    ELSE sent_status
  /\ UNCHANGED <<clockVars, faultsLeft, campaigns, schedules, jobs, nextJob, task,
                 histVars, reqNo, stored>>
  /\ UNCHANGED <<poolVars, upload_raised, status_log, syncVars, fileVars,
                 acctVars>>

\* campaigns = file_store.load('campaigns.json'), which may raise
CreateLoad ==
  /\ h.op = "create" /\ h.pc = "loadCampaigns"
  /\ \E ok \in IOResults :
       /\ faultsLeft' = Faulted(ok)
       /\ h' = IF ok THEN [h EXCEPT !.pc = "store", !.campaigns = campaigns]
                     ELSE Respond(h, 500)
  /\ UNCHANGED <<clockVars, campaigns, schedules, jobs, nextJob, task, histVars,
                 pipeVars>>
  /\ UNCHANGED sideVars

\* routes.py 118-119 and 156-159: what follows the save of the record
AfterStore(hh) ==
  IF hh.at.kind = "none" THEN Respond(hh, 200)
  ELSE IF CompareRaises(hh.at) THEN Respond(hh, 500)
  ELSE IF hh.at.wall > LocalNow THEN [hh EXCEPT !.pc = "arm", !.campaigns = EmptyMap]
  ELSE Respond(hh, 200)

\* campaigns[campaign_id] = campaign_data; file_store.save
CreateStore ==
  /\ h.op = "create" /\ h.pc = "store"
  /\ \E ok \in IOResults :
       /\ faultsLeft' = Faulted(ok)
       /\ IF ok
          THEN /\ campaigns' = (h.campaign_id :> CampaignData(created_ids[h.req]))
                                 @@ h.campaigns
               /\ stored' = stored \cup {h.req}
               /\ h' = AfterStore(h)
          ELSE /\ h' = Respond(h, 500)
               /\ UNCHANGED <<campaigns, stored>>
  /\ UNCHANGED <<clockVars, schedules, jobs, nextJob, task, histVars, reqNo,
                 created_ids, issued, pipe>>
  /\ UNCHANGED sideVars

\* auto-schedule: job id, scheduler.schedule_campaign_activation
CreateArm ==
  /\ h.op = "create" /\ h.pc = "arm"
  /\ jobs' = (nextJob :> Job(h.at, h.campaign_id,
                             created_ids[h.req]["campaign_id"])) @@ jobs
  /\ nextJob' = nextJob + 1
  /\ h' = [h EXCEPT !.pc = "loadSchedules", !.job_id = nextJob]
  /\ UNCHANGED <<clockVars, faultsLeft, campaigns, schedules, task, histVars,
                 pipeVars>>
  /\ UNCHANGED sideVars

\* schedules = file_store.load('schedules.json')
CreateLoadSchedules ==
  /\ h.op = "create" /\ h.pc = "loadSchedules"
  /\ h' = [h EXCEPT !.pc = "saveSchedules", !.schedules = schedules]
  /\ UNCHANGED <<clockVars, faultsLeft, campaigns, schedules, jobs, nextJob, task,
                 histVars, pipeVars>>
  /\ UNCHANGED sideVars

\* schedules[job_id] = {...}; file_store.save; the response
CreateSaveSchedules ==
  /\ h.op = "create" /\ h.pc = "saveSchedules"
  /\ \E ok \in IOResults :
       /\ faultsLeft' = Faulted(ok)
       /\ IF ok
          THEN /\ schedules' = SetItem(h.schedules,
                    ScheduleData(h.job_id, h.campaign_id,
                      created_ids[h.req]["campaign_id"], h.at))
               /\ h' = [Respond(h, 200) EXCEPT !.job_id = h.job_id]
          ELSE /\ h' = Respond(h, 500)
               /\ UNCHANGED schedules
  /\ UNCHANGED <<clockVars, campaigns, jobs, nextJob, task, histVars, pipeVars>>
  /\ UNCHANGED sideVars


\* ------------------------------------------------- POST /campaigns/{id}/schedule
\* routes.py 393: `activate_at <= datetime.now()`, both sides naive
NotInFuture(at) == at.wall <= LocalNow

\* a request arrives: load campaigns, the future check, job id, add_job
ScheduleArm ==
  /\ running /\ Free
  /\ nextJob <= MaxJobs
  /\ \E c \in RequestCampaigns, at \in ActivateAts :
       LET r == Request("schedule", c, at)
       IN IF c \notin DOMAIN campaigns
          THEN /\ h' = Respond(r, 404)
               /\ UNCHANGED <<jobs, nextJob>>
          ELSE IF CompareRaises(at)
          THEN /\ h' = Respond(r, 500)
               /\ UNCHANGED <<jobs, nextJob>>
          ELSE IF NotInFuture(at)
          THEN /\ h' = Respond(r, 400)
               /\ UNCHANGED <<jobs, nextJob>>
          ELSE /\ jobs' = (nextJob :> Job(at, c,
                              campaigns[c].meta_ids["campaign_id"])) @@ jobs
               /\ nextJob' = nextJob + 1
               /\ h' = [r EXCEPT !.pc = "load", !.job_id = nextJob,
                          !.meta_campaign_id =
                            campaigns[c].meta_ids["campaign_id"]]
  /\ UNCHANGED <<clockVars, faultsLeft, campaigns, schedules, task, histVars, pipeVars>>
  /\ UNCHANGED sideVars

\* schedules = file_store.load('schedules.json')
ScheduleLoad ==
  /\ h.op = "schedule" /\ h.pc = "load"
  /\ h' = [h EXCEPT !.pc = "save", !.schedules = schedules]
  /\ UNCHANGED <<clockVars, faultsLeft, campaigns, schedules, jobs, nextJob, task,
                 histVars, pipeVars>>
  /\ UNCHANGED sideVars

\* schedules[job_id] = {...}; file_store.save, which may raise StorageError
ScheduleSave ==
  /\ h.op = "schedule" /\ h.pc = "save"
  /\ \E ok \in IOResults :
       /\ faultsLeft' = Faulted(ok)
       /\ IF ok
          THEN /\ schedules' = SetItem(h.schedules,
                    ScheduleData(h.job_id, h.campaign_id, h.meta_campaign_id,
                                 h.at))
               /\ h' = [Respond(h, 200) EXCEPT !.job_id = h.job_id]
          ELSE /\ h' = Respond(h, 500)
               /\ UNCHANGED schedules
  /\ UNCHANGED <<clockVars, campaigns, jobs, nextJob, task, histVars, pipeVars>>
  /\ UNCHANGED sideVars

\* ----------------------------------------------- DELETE /campaigns/{id}/schedule
\* routes.py 462-465: the first record of the campaign that is pending
FirstPending(s, c) ==
  LET hits == {i \in 1..Len(s) : s[i].campaign_id = c /\ s[i].status = "pending"}
  IN IF hits = {} THEN 0
     ELSE s[CHOOSE i \in hits : \A k \in hits : i <= k].job_id

\* a request arrives: load schedules and search
CancelFind ==
  /\ running /\ Free
  /\ \E c \in RequestCampaigns :
       LET r == Request("cancel", c, NoneAt)
       IN IF FirstPending(schedules, c) = 0
          THEN h' = Respond(r, 404)
          ELSE h' = [r EXCEPT !.pc = "cancel", !.schedules = schedules,
                              !.job_id = FirstPending(schedules, c)]
  /\ UNCHANGED <<clockVars, faultsLeft, campaigns, schedules, jobs, nextJob, task,
                 histVars, pipeVars>>
  /\ UNCHANGED sideVars

\* SchedulerManager.cancel_job: remove_job raises JobLookupError for a job
\* that is not in the store (unknown, already fired, already removed)
cancel_job_swallowing(jid) == TRUE
cancel_job(jid) == jid \in DOMAIN jobs

CancelJob ==
  /\ h.op = "cancel" /\ h.pc = "cancel"
  /\ IF cancel_job(h.job_id)
     THEN /\ jobs' = Remove(jobs, h.job_id)
          /\ cancelOk' = [cancelOk EXCEPT ![h.job_id] = @ + 1]
          /\ h' = [h EXCEPT !.pc = "save"]
     ELSE /\ h' = Respond(h, 500)
          /\ UNCHANGED <<jobs, cancelOk>>
  /\ UNCHANGED <<clockVars, faultsLeft, campaigns, schedules, nextJob, task, missed,
                 runs, atStart, outlived, pipeVars>>
  /\ UNCHANGED sideVars

\* schedules[job_id]['status'] = 'cancelled' on the dict loaded by CancelFind
MarkCancelled(s, jid) == [s EXCEPT ![KeyIndex(s, jid)].status = "cancelled"]

\* the jobs of the job table that activate campaign c
ArmedFor(c) == {j \in DOMAIN jobs : jobs[j].campaign_id = c}

CancelSave ==
  /\ h.op = "cancel" /\ h.pc = "save"
  /\ \E ok \in IOResults :
       /\ faultsLeft' = Faulted(ok)
       /\ IF ok
          THEN /\ schedules' = MarkCancelled(h.schedules, h.job_id)
               /\ h' = [Respond(h, 200) EXCEPT !.job_id = h.job_id]
               /\ outlived' = outlived \cup ArmedFor(h.campaign_id)
          ELSE /\ h' = Respond(h, 500)
               /\ UNCHANGED <<schedules, outlived>>
  /\ UNCHANGED <<clockVars, campaigns, jobs, nextJob, task, missed, runs, cancelOk,
                 atStart, pipeVars>>
  /\ UNCHANGED sideVars

\* ------------------------------------------------------ the scheduler thread
Due(j) == j \in DOMAIN jobs /\ jobs[j].run_date <= now

\* run_job: a run time missed by more than the grace time is skipped
Misfired(j) == now - jobs[j].run_date > MisfireGrace

\* _process_jobs: a due job is submitted to the pool and, its date trigger
\* having no further fire time, removed from the job store; the worker then
\* runs activate_campaign_job(campaign_id, meta_campaign_id) unless the run
\* time was missed
Fire(j) ==
  /\ running /\ Due(j)
  /\ jobs' = Remove(jobs, j)
  /\ IF Misfired(j)
     THEN /\ missed' = missed \cup {j}
          /\ UNCHANGED <<task, runs>>
     ELSE /\ task' = [task EXCEPT ![j] =
                 [NoTask EXCEPT !.pc = "load",
                                !.campaign_id = jobs[j].campaign_id,
                                !.meta_campaign_id = jobs[j].meta_campaign_id]]
          /\ runs' = [runs EXCEPT ![j] = @ + 1]
          /\ UNCHANGED missed
  /\ UNCHANGED <<clockVars, faultsLeft, campaigns, schedules, nextJob, h, cancelOk,
                 atStart, outlived, pipeVars>>
  /\ UNCHANGED sideVars

\* a running scheduler wakes up at the next run_date: time does not pass a
\* due job while the scheduler runs
Tick ==
  /\ now < MaxTime
  /\ running => \A j \in DOMAIN jobs : ~Due(j)
  /\ now' = now + 1
  /\ UNCHANGED <<serverOffset, running, restarts, faultsLeft, campaigns, schedules,
                 jobs, nextJob, task, h, histVars, pipeVars>>
  /\ UNCHANGED sideVars

TasksQuiet == \A j \in JobIds : task[j].pc \in {"none", "done"}

\* shutdown_event: scheduler.shutdown(wait=True) after the last request
Shutdown ==
  /\ running /\ Free /\ TasksQuiet
  /\ restarts < MaxRestarts
  /\ running' = FALSE
  /\ UNCHANGED <<now, serverOffset, restarts, faultsLeft, campaigns, schedules,
                 jobs, nextJob, task, h, histVars, pipeVars>>
  /\ UNCHANGED sideVars

\* the jobs a started scheduler works on: the SQLAlchemyJobStore rows of
\* jobs.db, whatever process wrote them
LoadJobStore(db) == db

\* startup_event: SchedulerManager(), start()
Start ==
  /\ ~running
  /\ running' = TRUE
  /\ restarts' = restarts + 1
  /\ jobs' = LoadJobStore(jobs)
  /\ atStart' = atStart \cup
       {[job_id |-> j, run_date |-> jobs[j].run_date,
         overdue |-> jobs[j].run_date < now] : j \in DOMAIN jobs}
  /\ UNCHANGED <<now, serverOffset, faultsLeft, campaigns, schedules, nextJob, task,
                 h, missed, runs, cancelOk, outlived, pipeVars>>
  /\ UNCHANGED sideVars

\* ------------------------------------- activate_campaign_job, on a pool worker
\* jobs.py 38-41: the key of the first record whose campaign_id matches
FirstForCampaign(s, c) ==
  LET hits == {i \in 1..Len(s) : s[i].campaign_id = c}
  IN IF hits = {} THEN 0
     ELSE s[CHOOSE i \in hits : \A k \in hits : i <= k].job_id

\* the task ends: its locals are gone, what it did stays visible
Finish(t, result) ==
  [t EXCEPT !.pc = "done", !.result = result, !.schedules = <<>>,
            !.campaigns = EmptyMap, !.schedule_key = 0, !.error = ""]

RaiseAndGoOn(t, msg) == [t EXCEPT !.pc = "loadCamp", !.error = msg]
\* an exception inside the try block: control goes to an except clause
Raise(t, msg) == [t EXCEPT !.pc = "except", !.error = msg]

\* file_store.load('schedules.json') and the search.  When load raises,
\* schedule_key is still unbound and the except clause itself fails on it.
TaskLoad(j) ==
  /\ task[j].pc = "load"
  /\ \E ok \in IOResults :
       /\ faultsLeft' = Faulted(ok)
       /\ task' = [task EXCEPT ![j] =
            IF ok
            THEN [@ EXCEPT !.pc = "remote", !.schedules = schedules,
                           !.schedule_key =
                             FirstForCampaign(schedules, task[j].campaign_id)]
            ELSE Finish([@ EXCEPT !.error = "storage"], "raised")]
  /\ UNCHANGED <<clockVars, campaigns, schedules, jobs, nextJob, h, histVars,
                 pipeVars>>
  /\ UNCHANGED sideVars

\* what get_campaign answers: an error, or the campaign with its status, or
\* a body without the status field
FetchResults == {"fail", "ACTIVE", "PAUSED", "nostatus"}

\* meta_data.get('status', 'ACTIVE')
StatusOr(r, default) == IF r = "nostatus" THEN default ELSE r

\* jobs.py 49-55, the two remote calls, which touch no local state:
\* client.update_campaign_status(meta_campaign_id, 'ACTIVE'), then
\* sync_campaign_from_meta(client, meta_campaign_id)
AfterRemote(t, updateOk, fetched) ==
  IF ~updateOk THEN Raise(t, "update")
  ELSE IF fetched = "fail" THEN Raise([t EXCEPT !.updated = TRUE], "fetch")
  ELSE [t EXCEPT !.pc = "loadCamp", !.updated = TRUE,
                 !.meta_status = StatusOr(fetched, "ACTIVE")]

TaskRemote(j) ==
  /\ task[j].pc = "remote"
  /\ \E updateOk \in BOOLEAN, fetched \in FetchResults :
       task' = [task EXCEPT ![j] = AfterRemote(@, updateOk, fetched)]
  /\ UNCHANGED <<clockVars, faultsLeft, campaigns, schedules, jobs, nextJob, h,
                 histVars, pipeVars>>
  /\ UNCHANGED sideVars

\* campaigns = file_store.load('campaigns.json')
TaskLoadCampaigns(j) ==
  /\ task[j].pc = "loadCamp"
  /\ task' = [task EXCEPT ![j] =
       [@ EXCEPT !.campaigns = campaigns,
                 !.pc = IF task[j].campaign_id \in DOMAIN campaigns
                        THEN "saveCamp" ELSE "saveSched"]]
  /\ UNCHANGED <<clockVars, faultsLeft, campaigns, schedules, jobs, nextJob, h,
                 histVars, pipeVars>>
  /\ UNCHANGED sideVars

\* jobs.py 60-62 on the loaded dict
Activated(cs, c, st) ==
  [cs EXCEPT ![c].status = st, ![c].activated_at = UtcNow,
             ![c].last_synced = UtcNow]

\* file_store.save('campaigns.json', campaigns)
TaskSaveCampaigns(j) ==
  /\ task[j].pc = "saveCamp"
  /\ \E ok \in IOResults :
       /\ faultsLeft' = Faulted(ok)
       /\ IF ok
          THEN /\ campaigns' = Activated(task[j].campaigns, task[j].campaign_id,
                                         task[j].meta_status)
               /\ task' = [task EXCEPT ![j].pc = "saveSched"]
          ELSE /\ task' = [task EXCEPT ![j] = Raise(@, "storage")]
               /\ UNCHANGED campaigns
  /\ UNCHANGED <<clockVars, schedules, jobs, nextJob, h, histVars, pipeVars>>
  /\ UNCHANGED sideVars

\* jobs.py 68-70 and 81-84 on the dict loaded by TaskLoad
Mark(s, key, status, err) ==
  [s EXCEPT ![KeyIndex(s, key)].status = status,
            ![KeyIndex(s, key)].executed_at = UtcNow,
            ![KeyIndex(s, key)].error = err]

\* jobs.py 67-72: the record found by TaskLoad becomes 'completed'
TaskSaveSchedules(j) ==
  /\ task[j].pc = "saveSched"
  /\ IF task[j].schedule_key = 0
     THEN /\ task' = [task EXCEPT ![j] = Finish(@, "success")]
          /\ UNCHANGED <<schedules, faultsLeft>>
     ELSE \E ok \in IOResults :
       LET marked == Mark(task[j].schedules, task[j].schedule_key, "completed", <<>>)
       IN /\ faultsLeft' = Faulted(ok)
          /\ IF ok
             THEN /\ schedules' = marked
                  /\ task' = [task EXCEPT ![j] = Finish(@, "success")]
             ELSE /\ task' = [task EXCEPT ![j] =
                         Raise([@ EXCEPT !.schedules = marked], "storage")]
                  /\ UNCHANGED schedules
  /\ UNCHANGED <<clockVars, campaigns, jobs, nextJob, h, histVars, pipeVars>>
  /\ UNCHANGED sideVars

\* a variant of ExceptEnds: the except clause returns
ExceptReturns(t) == Finish(t, "success")

\* the `raise` that ends both except clauses; a failing save leaves the
\* clause as an exception too
ExceptEnds(t) == Finish(t, "raised")

\* jobs.py 76-101: both except clauses mark the record 'failed', save and
\* re-raise; a failing save raises out of the clause
TaskExcept(j) ==
  /\ task[j].pc = "except"
  /\ IF task[j].schedule_key = 0
     THEN /\ task' = [task EXCEPT ![j] = ExceptEnds(@)]
          /\ UNCHANGED <<schedules, faultsLeft>>
     ELSE \E ok \in IOResults :
       /\ faultsLeft' = Faulted(ok)
       /\ task' = [task EXCEPT ![j] = ExceptEnds(@)]
       /\ IF ok
          THEN schedules' = Mark(task[j].schedules, task[j].schedule_key,
                                 "failed", <<task[j].error>>)
          ELSE UNCHANGED schedules
  /\ UNCHANGED <<clockVars, campaigns, jobs, nextJob, h, histVars, pipeVars>>
  /\ UNCHANGED sideVars

\* ------------------------------------------------------------ specification
Next ==
  \/ ScheduleArm
  \/ ScheduleLoad
  \/ ScheduleSave
  \/ CancelFind
  \/ CancelJob
  \/ CancelSave
  \/ \E j \in JobIds : Fire(j)
  \/ \E j \in JobIds : TaskLoad(j)
  \/ \E j \in JobIds : TaskRemote(j)
  \/ \E j \in JobIds : TaskLoadCampaigns(j)
  \/ \E j \in JobIds : TaskSaveCampaigns(j)
  \/ \E j \in JobIds : TaskSaveSchedules(j)
  \/ \E j \in JobIds : TaskExcept(j)
  \/ Tick

\* with the service stopped and started again
NextRestart ==
  \/ Next
  \/ Shutdown
  \/ Start

Spec == Init /\ [][Next]_vars

SpecRestart == Init /\ [][NextRestart]_vars

SpecClock == InitClock /\ [][Next]_vars

SpecFaults == InitFaults /\ [][Next]_vars

\* campaign creation alone
NextPipeline ==
  \/ CreateBegin
  \/ UploadVideo
  \/ GetThumbnail
  \/ \E k \in Kinds \ {"video_id"} : CreateObject(k)
  \/ CreateLoad
  \/ CreateStore
  \/ CreateArm
  \/ CreateLoadSchedules
  \/ CreateSaveSchedules

SpecPipeline == InitPipeline /\ [][NextPipeline]_vars

\* ---------------------------------------------------------------------
\* The executor: ThreadPoolExecutor(10) with max_instances 1.  Jobs are
\* date-triggered with fresh ids and come due in the order they were added;
\* the task body is one step here.

RECURSIVE SumTo(_, _)
SumTo(f, n) == IF n = 0 THEN 0 ELSE f[n] + SumTo(f, n - 1)

\* number of pool threads running a task
Busy == SumTo(executing, MaxPoolJobs)

AlwaysIdleThread == TRUE
\* a pool thread is free, or the pool may still grow (max_workers)
HasIdleThread == Busy < PoolSize

\* add_job of a job with a fresh id
PoolArm ==
  /\ running
  /\ armed < MaxPoolJobs
  /\ armed' = armed + 1
  /\ UNCHANGED <<fired, instances, work_queue, executing>>
  /\ UNCHANGED <<mainVars, pipeHist, status_log, syncVars, fileVars, acctVars>>

\* the scheduler submits the next due job and drops it from the store; a
\* job that already has max_instances instances is skipped
PoolSubmit ==
  /\ running
  /\ fired < armed
  /\ fired' = fired + 1
  /\ IF instances[fired + 1] >= MaxInstances
     THEN UNCHANGED <<instances, work_queue>>
     ELSE /\ instances' = [instances EXCEPT ![fired + 1] = @ + 1]
          /\ work_queue' = Append(work_queue, fired + 1)
  /\ UNCHANGED <<armed, executing>>
  /\ UNCHANGED <<mainVars, pipeHist, status_log, syncVars, fileVars, acctVars>>

\* a pool thread takes the oldest work item
PoolTake ==
  /\ work_queue # <<>>
  /\ HasIdleThread
  /\ executing' = [executing EXCEPT ![Head(work_queue)] = @ + 1]
  /\ work_queue' = Tail(work_queue)
  /\ UNCHANGED <<armed, fired, instances>>
  /\ UNCHANGED <<mainVars, pipeHist, status_log, syncVars, fileVars, acctVars>>

\* the task returns or raises; the executor releases the instance
PoolDone(j) ==
  /\ executing[j] > 0
  /\ executing' = [executing EXCEPT ![j] = @ - 1]
  /\ instances' = [instances EXCEPT ![j] = @ - 1]
  /\ UNCHANGED <<armed, fired, work_queue>>
  /\ UNCHANGED <<mainVars, pipeHist, status_log, syncVars, fileVars, acctVars>>

NextPool ==
  \/ PoolArm
  \/ PoolSubmit
  \/ PoolTake
  \/ \E j \in PoolJobIds : PoolDone(j)

SpecPool == Init /\ [][NextPool]_vars

\* ---------------------------------------------------------------------
\* MetaAPIClient.update_campaign_status, called with any status string

\* what a caller may pass as status
Statuses == {"ACTIVE", "PAUSED", "ARCHIVED", "DELETED", "active", ""}

\* the outcomes of requests.post and _handle_api_response
PostResults == {"ok", "error", "RequestException"}

AnyStatus(status) == TRUE
\* client.py 180: the status is one of the three the platform accepts
ValidStatus(status) == status \in {"ACTIVE", "PAUSED", "ARCHIVED"}

\* one call: the check of the status, then one requests.post, whose failure
\* is raised as MetaAPIError
update_campaign_status ==
  /\ Len(status_log) < MaxStatusCalls
  /\ \E campaign_id \in Campaigns, status \in Statuses :
       IF ~ValidStatus(status)
       THEN status_log' = Append(status_log,
              [campaign_id |-> campaign_id, status |-> status,
               requests |-> 0, raised |-> TRUE])
       ELSE \E result \in PostResults :
              status_log' = Append(status_log,
                [campaign_id |-> campaign_id, status |-> status,
                 requests |-> 1, raised |-> result # "ok"])
  /\ UNCHANGED <<mainVars, poolVars, pipeHist, syncVars, fileVars, acctVars>>

NextStatus == update_campaign_status

SpecStatus == Init /\ [][NextStatus]_vars

\* ---------------------------------------------------------------------
\* GET-and-merge of one campaign: POST /campaigns/{id}/sync

Names == {"n1", "n2"}
RemoteStatuses == {"ACTIVE", "PAUSED"}
\* the platform leaves daily_budget out for a campaign without one
Budgets == {Absent, "1000", "2000"}

\* somebody edits the campaign in Ads Manager
RemoteEdit ==
  /\ \E n \in Names, st \in RemoteStatuses, b \in Budgets :
       meta_data' = [name |-> n, status |-> st, daily_budget |-> b]
  /\ meta_data' # meta_data
  /\ UNCHANGED <<campaign_data, sync_response>>
  /\ UNCHANGED <<mainVars, poolVars, pipeHist, status_log, fileVars, acctVars>>

\* the updates dict: status, name and a fresh last_synced always, the
\* daily budget when the platform returned one
Updates(rec, meta, stamp) ==
  LET base == [f \in {"status", "campaign_name", "last_synced"} |->
                 CASE f = "status" -> meta.status
                   [] f = "campaign_name" -> meta.name
                   [] f = "last_synced" -> stamp]
  IN IF meta.daily_budget # Absent
     THEN ("daily_budget" :> meta.daily_budget) @@ base
     ELSE base

\* dict.update on the record
Updated(rec, updates) ==
  [f \in DOMAIN rec |-> IF f \in DOMAIN updates THEN updates[f] ELSE rec[f]]

\* the whole handler (it has no await): load, fetch, merge, save, answer;
\* a fetch that fails is answered 500 and nothing is saved
sync_campaign ==
  /\ campaign_data.last_synced < MaxSyncs
  /\ \E fetched \in BOOLEAN :
       IF fetched
       THEN LET updates == Updates(campaign_data, meta_data,
                                   campaign_data.last_synced + 1)
            IN /\ campaign_data' = Updated(campaign_data, updates)
               /\ sync_response' = [code |-> 200, changes |-> updates]
       ELSE /\ sync_response' = [code |-> 500, changes |-> EmptyMap]
            /\ UNCHANGED campaign_data
  /\ UNCHANGED meta_data
  /\ UNCHANGED <<mainVars, poolVars, pipeHist, status_log, fileVars, acctVars>>

NextSync == RemoteEdit \/ sync_campaign

SpecSync == Init /\ [][NextSync]_vars

\* ---------------------------------------------------------------------
\* FileStore.load and FileStore.save on campaigns.json, step by step, under
\* threads that each load the file, fetch the campaign and save the merge

\* what a reader of campaigns.json gets at this moment
Content == inode[dir.json]

Mappings == {[by |-> t, status |-> st] : t \in 0..MaxSavers, st \in RemoteStatuses}

\* json.load: the mapping the content is the dump of, or a JSONDecodeError
Parses(c) == \E d \in Mappings : c = Serialize(d)
Parse(c) == CHOOSE d \in Mappings : c = Serialize(d)

\* a write of chunk ch at offset i; the gap before it reads as NUL bytes
WriteAt(c, i, ch) ==
  [k \in 1..(IF Len(c) > i THEN Len(c) ELSE i) |->
     IF k = i THEN ch ELSE IF k <= Len(c) THEN c[k] ELSE Nul]

\* file_path.with_suffix('.tmp'): one name for every caller
TempPath(t) == "tmp"

\* file_store.load('campaigns.json')
FileLoad(t) ==
  /\ th[t].pc = "idle"
  /\ IF Parses(Content)
     THEN th' = [th EXCEPT ![t].pc = "fetch", ![t].data = Parse(Content)]
     ELSE th' = [th EXCEPT ![t].pc = "failed"]
  /\ UNCHANGED <<dir, inode>>
  /\ UNCHANGED <<mainVars, poolVars, pipeHist, status_log, syncVars, acctVars>>

\* sync_campaign_from_meta, then the merge into the loaded mapping
FileFetch(t) ==
  /\ th[t].pc = "fetch"
  /\ th' = [th EXCEPT ![t].pc = "open", ![t].seen = meta_data.status,
                      ![t].data = [by |-> t, status |-> meta_data.status]]
  /\ UNCHANGED <<dir, inode>>
  /\ UNCHANGED <<mainVars, poolVars, pipeHist, status_log, syncVars, acctVars>>

\* open(temp_path, 'w'): creates the file, or truncates the one that exists
FileOpen(t) ==
  /\ th[t].pc = "open"
  /\ LET name == TempPath(t)
         n == IF dir[name] = NoFile THEN t ELSE dir[name]
     IN /\ dir' = [dir EXCEPT ![name] = n]
        /\ inode' = [inode EXCEPT ![n] = <<>>]
        /\ th' = [th EXCEPT ![t].pc = "write", ![t].fd = n, ![t].pos = 1]
  /\ UNCHANGED <<mainVars, poolVars, pipeHist, status_log, syncVars, acctVars>>

\* one write of json.dump through the thread's own file object
FileWrite(t) ==
  /\ th[t].pc = "write"
  /\ inode' = [inode EXCEPT ![th[t].fd] =
                 WriteAt(@, th[t].pos, Serialize(th[t].data)[th[t].pos])]
  /\ th' = [th EXCEPT ![t].pos = @ + 1,
                      ![t].pc = IF th[t].pos = MaxChunks THEN "replace" ELSE "write"]
  /\ UNCHANGED dir
  /\ UNCHANGED <<mainVars, poolVars, pipeHist, status_log, syncVars, acctVars>>

\* temp_path.replace(file_path); FileNotFoundError when the name is gone
FileReplace(t) ==
  /\ th[t].pc = "replace"
  /\ LET name == TempPath(t)
     IN IF dir[name] = NoFile
        THEN /\ th' = [th EXCEPT ![t].pc = "except"]
             /\ UNCHANGED dir
        ELSE /\ dir' = [dir EXCEPT !.json = dir[name], ![name] = NoFile]
             /\ th' = [th EXCEPT ![t].pc = "done"]
  /\ UNCHANGED inode
  /\ UNCHANGED <<mainVars, poolVars, pipeHist, status_log, syncVars, acctVars>>

\* the except clause: unlink the temp file if there is one, raise
\* StorageError
FileExcept(t) ==
  /\ th[t].pc = "except"
  /\ dir' = [dir EXCEPT ![TempPath(t)] = NoFile]
  /\ th' = [th EXCEPT ![t].pc = "failed"]
  /\ UNCHANGED inode
  /\ UNCHANGED <<mainVars, poolVars, pipeHist, status_log, syncVars, acctVars>>

\* the platform's status of the campaign changes
RemoteStatusEdit ==
  /\ \E st \in RemoteStatuses : meta_data' = [meta_data EXCEPT !.status = st]
  /\ meta_data' # meta_data
  /\ UNCHANGED <<campaign_data, sync_response>>
  /\ UNCHANGED <<mainVars, poolVars, pipeHist, status_log, fileVars, acctVars>>

NextFiles ==
  \/ RemoteStatusEdit
  \/ \E t \in Savers : FileLoad(t)
  \/ \E t \in Savers : FileFetch(t)
  \/ \E t \in Savers : FileOpen(t)
  \/ \E t \in Savers : FileWrite(t)
  \/ \E t \in Savers : FileReplace(t)
  \/ \E t \in Savers : FileExcept(t)

SpecFiles == Init /\ [][NextFiles]_vars

\* ---------------------------------------------------------------------
\* POST /accounts.  Only this handler writes accounts.json, and it does not
\* await: the whole handler is one step.

AccountIds == {"acct_a", "acct_b", "acct_c"}
\* the request bodies that differ in something other than account_id
AccountBodies == {"body1", "body2"}

AlwaysNew(account_id, accts) == FALSE
\* routes.py 526: `request.account_id in accounts`
AlreadyExists(account_id, accts) == account_id \in DOMAIN accts

\* load; 409 for an id that is a key; accounts[account_id] = account_data;
\* save (a StorageError is answered 500); 201
create_account ==
  /\ account_response.n < MaxAccountCalls
  /\ \E account_id \in AccountIds, body \in AccountBodies, ok \in IOResults :
       LET answer(code) == [n |-> account_response.n + 1,
                            account_id |-> account_id, data |-> body,
                            code |-> code]
       IN IF AlreadyExists(account_id, accounts)
          THEN /\ account_response' = answer(409)
               /\ UNCHANGED <<accounts, faultsLeft>>
          ELSE /\ faultsLeft' = Faulted(ok)
               /\ IF ok
                  THEN /\ accounts' = (account_id :> body) @@ accounts
                       /\ account_response' = answer(201)
                  ELSE /\ account_response' = answer(500)
                       /\ UNCHANGED accounts
  /\ UNCHANGED <<clockVars, campaigns, schedules, jobs, nextJob, task, h,
                 histVars, pipeVars>>
  /\ UNCHANGED <<poolVars, pipeHist, status_log, syncVars, fileVars>>

NextAccounts == create_account

SpecAccounts == Init /\ [][NextAccounts]_vars

\* campaign creation with the scheduler and its workers
NextCreate ==
  \/ NextPipeline
  \/ \E j \in JobIds : Fire(j)
  \/ \E j \in JobIds : TaskLoad(j)
  \/ \E j \in JobIds : TaskRemote(j)
  \/ \E j \in JobIds : TaskLoadCampaigns(j)
  \/ \E j \in JobIds : TaskSaveCampaigns(j)
  \/ \E j \in JobIds : TaskSaveSchedules(j)
  \/ \E j \in JobIds : TaskExcept(j)
  \/ Tick

SpecCreate == InitCreate /\ [][NextCreate]_vars

\* ---------------------------------------------------------------------
\* POST /campaigns/{id}/activate and POST /campaigns/{id}/sync on the
\* campaign store.  Neither handler awaits, so they run one after the other
\* on the event loop; the scheduler's worker threads run beside them.

\* campaigns = file_store.load('campaigns.json'); 404 for an unknown id
ActivateLoad ==
  /\ running /\ Free
  /\ \E c \in RequestCampaigns :
       LET rq == Request("activate", c, NoneAt)
       IN h' = IF c \notin DOMAIN campaigns
               THEN Respond(rq, 404)
               ELSE [rq EXCEPT !.pc = "remote", !.campaigns = campaigns,
                               !.meta_campaign_id =
                                  campaigns[c].meta_ids["campaign_id"]]
  /\ UNCHANGED <<clockVars, faultsLeft, campaigns, schedules, jobs, nextJob, task,
                 histVars, pipeVars>>
  /\ UNCHANGED sideVars

\* update_campaign_status(client, id, 'ACTIVE'), sync_campaign_from_meta;
\* either may raise MetaAPIError, answered 500
ActivateRemote ==
  /\ h.op = "activate" /\ h.pc = "remote"
  /\ \E updateOk \in BOOLEAN, fetched \in FetchResults :
       h' = IF ~updateOk \/ fetched = "fail"
            THEN Respond(h, 500)
            ELSE [h EXCEPT !.pc = "save",
                           !.meta_status = StatusOr(fetched, "ACTIVE")]
  /\ UNCHANGED <<clockVars, faultsLeft, campaigns, schedules, jobs, nextJob, task,
                 histVars, pipeVars>>
  /\ UNCHANGED sideVars

\* status, activated_at, last_synced on the loaded dict; file_store.save
ActivateSave ==
  /\ h.op = "activate" /\ h.pc = "save"
  /\ \E ok \in IOResults :
       /\ faultsLeft' = Faulted(ok)
       /\ IF ok
          THEN /\ campaigns' = Activated(h.campaigns, h.campaign_id, h.meta_status)
               /\ h' = Respond(h, 200)
          ELSE /\ h' = Respond(h, 500)
               /\ UNCHANGED campaigns
  /\ UNCHANGED <<clockVars, schedules, jobs, nextJob, task, histVars, pipeVars>>
  /\ UNCHANGED sideVars

\* campaigns = file_store.load('campaigns.json'); 404 for an unknown id
SyncLoad ==
  /\ running /\ Free
  /\ \E c \in RequestCampaigns :
       LET rq == Request("sync", c, NoneAt)
       IN h' = IF c \notin DOMAIN campaigns
               THEN Respond(rq, 404)
               ELSE [rq EXCEPT !.pc = "remote", !.campaigns = campaigns,
                               !.meta_campaign_id =
                                  campaigns[c].meta_ids["campaign_id"]]
  /\ UNCHANGED <<clockVars, faultsLeft, campaigns, schedules, jobs, nextJob, task,
                 histVars, pipeVars>>
  /\ UNCHANGED sideVars

\* sync_campaign_from_meta; meta_data.get('status', campaign_data['status'])
SyncFetch ==
  /\ h.op = "sync" /\ h.pc = "remote"
  /\ \E fetched \in FetchResults :
       h' = IF fetched = "fail"
            THEN Respond(h, 500)
            ELSE [h EXCEPT !.pc = "save",
                           !.meta_status =
                              StatusOr(fetched, h.campaigns[h.campaign_id].status)]
  /\ UNCHANGED <<clockVars, faultsLeft, campaigns, schedules, jobs, nextJob, task,
                 histVars, pipeVars>>
  /\ UNCHANGED sideVars

\* routes.py 269-281 on the loaded dict (name and budget are not in the
\* record of this model)
Synced(cs, c, st) == [cs EXCEPT ![c].status = st, ![c].last_synced = UtcNow]

\* campaign_data.update(updates); file_store.save
SyncSave ==
  /\ h.op = "sync" /\ h.pc = "save"
  /\ \E ok \in IOResults :
       /\ faultsLeft' = Faulted(ok)
       /\ IF ok
          THEN /\ campaigns' = Synced(h.campaigns, h.campaign_id, h.meta_status)
               /\ h' = Respond(h, 200)
          ELSE /\ h' = Respond(h, 500)
               /\ UNCHANGED campaigns
  /\ UNCHANGED <<clockVars, schedules, jobs, nextJob, task, histVars, pipeVars>>
  /\ UNCHANGED sideVars

\* ---------------------------------------------------------------------
\* GET /campaigns/{id}: the status query, beside the scheduling handlers
\* and the workers

\* campaigns = file_store.load('campaigns.json'); 404 for an unknown id
StatusLoad ==
  /\ running /\ Free
  /\ \E c \in RequestCampaigns :
       LET rq == Request("status", c, NoneAt)
       IN h' = IF c \notin DOMAIN campaigns
               THEN Respond(rq, 404)
               ELSE [rq EXCEPT !.pc = "remote", !.campaigns = campaigns,
                               !.meta_campaign_id =
                                  campaigns[c].meta_ids["campaign_id"]]
  /\ UNCHANGED <<clockVars, faultsLeft, campaigns, schedules, jobs, nextJob, task,
                 histVars, pipeVars>>
  /\ UNCHANGED sideVars

QuerySyncs(cs, loaded, c, st) == Synced(loaded, c, st)
\* routes.py 219-227: the response is built from meta_data; the loaded dict
\* is not assigned to and file_store.save is not called
QueryKeeps(cs, loaded, c, st) == cs

\* sync_campaign_from_meta, then the response with
\* meta_data.get('status', 'UNKNOWN'); a MetaAPIError is answered 500
StatusFetch ==
  /\ h.op = "status" /\ h.pc = "remote"
  /\ \E fetched \in FetchResults :
       IF fetched = "fail"
       THEN /\ h' = Respond(h, 500)
            /\ UNCHANGED campaigns
       ELSE /\ h' = [Respond(h, 200) EXCEPT
                       !.meta_status = StatusOr(fetched, "UNKNOWN")]
            /\ campaigns' = QueryKeeps(campaigns, h.campaigns, h.campaign_id,
                                       StatusOr(fetched, "UNKNOWN"))
  /\ UNCHANGED <<clockVars, faultsLeft, schedules, jobs, nextJob, task, histVars,
                 pipeVars>>
  /\ UNCHANGED sideVars

NextQuery ==
  \/ Next
  \/ StatusLoad
  \/ StatusFetch

SpecQuery == Init /\ [][NextQuery]_vars

\* creation, immediate activation, sync and the scheduler's workers, within
\* the second in which the first job comes due
NextStore ==
  \/ NextPipeline
  \/ \E j \in JobIds : Fire(j)
  \/ \E j \in JobIds : TaskLoad(j)
  \/ \E j \in JobIds : TaskRemote(j)
  \/ \E j \in JobIds : TaskLoadCampaigns(j)
  \/ \E j \in JobIds : TaskSaveCampaigns(j)
  \/ \E j \in JobIds : TaskSaveSchedules(j)
  \/ \E j \in JobIds : TaskExcept(j)
  \/ ActivateLoad
  \/ ActivateRemote
  \/ ActivateSave
  \/ SyncLoad
  \/ SyncFetch
  \/ SyncSave

\* the start_time of the first request, Singapore time
FirstStart == NaiveAt(SGT_OFFSET + MaxTime)

\* The service on a host in the Singapore zone after its first
\* create_campaign, for c1 with a start_time in the future, at the second
\* the start_time names: the record is stored, the activation job is armed
\* and due, its schedule record is written.
InitStore ==
  /\ now = MaxTime
  /\ running = TRUE
  /\ restarts = 0
  /\ serverOffset = SGT_OFFSET
  /\ faultsLeft = 0
  /\ campaigns = ("c1" :> CampaignData(ChainOf(1)))
  /\ schedules = <<ScheduleData(1, "c1", RemoteId(1, "campaign_id"), FirstStart)>>
  /\ jobs = (1 :> Job(FirstStart, "c1", RemoteId(1, "campaign_id")))
  /\ nextJob = 2
  /\ task = [j \in JobIds |-> NoTask]
  /\ h = [Idle EXCEPT !.code = 200, !.job_id = 1]
  /\ missed = {}
  /\ runs = [j \in JobIds |-> 0]
  /\ cancelOk = [j \in JobIds |-> 0]
  /\ atStart = {}
  /\ outlived = {}
  /\ reqNo = 1
  /\ created_ids = [r \in Requests |-> IF r = 1 THEN ChainOf(1) ELSE EmptyMap]
  /\ issued = [r \in Requests |-> IF r = 1 THEN KindOrder ELSE <<>>]
  /\ pipe = [r \in Requests |-> IF r = 1 THEN "returned" ELSE "none"]
  /\ stored = {1}
  /\ upload_raised = [r \in Requests |-> "none"]
  /\ adset_sent = [r \in Requests |->
                     IF r = 1
                     THEN <<[at |-> FirstStart,
                             start_time |-> AdsetStartTime(FirstStart)]>>
                     ELSE <<>>]
  /\ sent_status = [r \in Requests |->
                      IF r = 1 THEN [i \in 1..3 |-> "PAUSED"] ELSE <<>>]
  /\ PoolIdle
  /\ status_log = <<>>
  /\ SyncStart
  /\ FilesStart
  /\ AccountsStart

SpecStore == InitStore /\ [][NextStore]_vars

\* ------------------------------------------------------------------ claims
\* the first n kinds of the order video, creative, campaign, adset, ad
PrefixOf(n) == {KindOrder[i] : i \in 1..n}

Full(ids) == DOMAIN ids = Kinds /\ \A k \in Kinds : ids[k] # EmptyId

\* C1: a pipeline run that returned holds all five ids; a run that raised
\* (and a run still under way) holds a strict prefix of the order video,
\* creative, campaign, adset, ad, without a gap.
C1_ChainOrStrictPrefix ==
  \A r \in Requests :
    /\ pipe[r] = "returned" => Full(created_ids[r])
    /\ pipe[r] \in {"raised", "running"} =>
         \E n \in 0..(Len(KindOrder) - 1) : DOMAIN created_ids[r] = PrefixOf(n)
    /\ pipe[r] = "none" => created_ids[r] = EmptyMap

\* one run returned the full chain, another raised after four steps
C1_Witness ==
  \E r1, r2 \in Requests :
    /\ pipe[r1] = "returned" /\ Full(created_ids[r1])
    /\ pipe[r2] = "raised" /\ DOMAIN created_ids[r2] = PrefixOf(4)

\* C2: only a request whose pipeline run returned all five ids has written
\* a campaign record; a request whose run raised has written none, and every
\* stored record carries the full chain of the request that wrote it.
C2_StoredOnlyAfterFiveSteps ==
  /\ \A r \in stored : pipe[r] = "returned" /\ Full(created_ids[r])
  /\ \A r \in Requests : pipe[r] = "raised" => r \notin stored
  /\ \A c \in DOMAIN campaigns :
       \E r \in stored : campaigns[c].meta_ids = created_ids[r]

\* a run failed at campaign creation with the ids video and creative, the
\* request was answered, and the store holds no record; another request stored
C2_Witness ==
  \E r1, r2 \in Requests :
    /\ pipe[r1] = "raised" /\ DOMAIN created_ids[r1] = PrefixOf(2)
    /\ issued[r1] = SubSeq(KindOrder, 1, 3)
    /\ r1 \notin stored /\ r2 \in stored /\ h.pc = "done"

\* the creation calls of run r so far follow the order, each after a
\* non-empty id of the step before it
C3_InOrder(r) ==
  /\ Len(issued[r]) <= Len(KindOrder)
  /\ \A i \in 1..Len(issued[r]) : issued[r][i] = KindOrder[i]
  /\ \A i \in 2..Len(issued[r]) :
       /\ KindOrder[i - 1] \in DOMAIN created_ids[r]
       /\ created_ids[r][KindOrder[i - 1]] # EmptyId

\* C3: the creation calls of a run are issued in the order video, creative,
\* campaign, adset, ad, each only after the step before it returned a
\* non-empty id, none of them twice; once the run has raised no further
\* creation call is issued for it.
C3_StepsInOrderThenStop ==
  /\ [](\A r \in Requests : C3_InOrder(r))
  /\ [][\A r \in Requests : pipe[r] = "raised" => issued'[r] = issued[r]]_vars

\* the upload of one run failed and was its only call, while another run
\* issued all five calls
C3_Witness ==
  \E r1, r2 \in Requests :
    /\ pipe[r1] = "raised" /\ issued[r1] = <<"video_id">>
    /\ issued[r2] = KindOrder /\ pipe[r2] = "returned"
    /\ reqNo = MaxRequests /\ h.pc = "done"

\* the status stored for job id jid, "absent" without a record
StatusOf(s, jid) ==
  IF KeyIndex(s, jid) = 0 THEN "absent" ELSE s[KeyIndex(s, jid)].status

Terminal == {"completed", "failed", "cancelled"}

\* the instant a caller means by a datetime: a naive one is Singapore time
InstantOf(at) ==
  IF at.kind = "aware" THEN at.wall - at.utcoffset ELSE at.wall - SGT_OFFSET

\* C4: a schedule record that holds a terminal status ('completed', 'failed',
\* 'cancelled') holds the same status after every step of every handler and
\* task: the status changes at most once, from 'pending'.
C4_TerminalOnce ==
  [][\A j \in JobIds :
       StatusOf(schedules, j) \in Terminal =>
         StatusOf(schedules', j) = StatusOf(schedules, j)]_vars

\* C5: cancel_job returns True at most once for a job id, and the record of
\* a job id whose cancellation succeeded is never 'completed' or 'failed'.
C5_CancelledStaysCancelled ==
  \A j \in JobIds :
    /\ cancelOk[j] <= 1
    /\ cancelOk[j] >= 1 => StatusOf(schedules, j) \notin {"completed", "failed"}

\* C6: a job that was armed and overdue when the scheduler started is never
\* dropped without running, and its task is started at most once.
C6_OverdueRunsOnce ==
  \A x \in atStart :
    x.overdue => x.job_id \notin missed /\ runs[x.job_id] <= 1

\* C7: a shutdown, the time the service is down, and a start leave the job
\* table as it was, and a job the start found in the store stays armed for
\* its run_date until it goes off or is cancelled: a restart loses no job.
C7_RestartKeepsJobs ==
  /\ [][(~running \/ ~running') => jobs' = jobs]_vars
  /\ [](\A x \in atStart :
          \/ /\ x.job_id \in DOMAIN jobs
             /\ jobs[x.job_id].run_date = x.run_date
          \/ runs[x.job_id] > 0
          \/ cancelOk[x.job_id] > 0)

\* C8: a schedule request that is not rejected asks for an instant strictly
\* after the current one, and a request rejected with 400 leaves the job
\* table and the schedule store as they were.
C8_NotFutureRejected ==
  /\ [][(h.pc = "done" /\ h'.op = "schedule" /\ h'.pc = "load") =>
          InstantOf(h'.at) > now]_vars
  /\ [][(h.pc = "done" /\ h'.pc = "done" /\ h'.code = 400) =>
          (jobs' = jobs /\ schedules' = schedules)]_vars

\* the job of the request in flight is armed for the requested instant, or
\* has gone off already
C9_Armed(hh) ==
  \/ /\ hh.job_id \in DOMAIN jobs
     /\ jobs[hh.job_id].run_date = InstantOf(hh.at)
     /\ jobs[hh.job_id].campaign_id = hh.campaign_id
  \/ runs[hh.job_id] > 0
  \/ hh.job_id \in missed

\* the schedule store s holds one record for the answered request hh, pending
C9_Recorded(s, hh) ==
  /\ Cardinality({i \in 1..Len(s) : s[i].job_id = hh.job_id}) = 1
  /\ StatusOf(s, hh.job_id) = "pending"
  /\ s[KeyIndex(s, hh.job_id)].campaign_id = hh.campaign_id
  /\ s[KeyIndex(s, hh.job_id)].scheduled_time = hh.at

OnlyActive(c) ==
  \A k \in JobIds :
    task[k].campaign_id = c => task[k].pc = "done" /\ task[k].meta_status = "ACTIVE"

\* C10: once the request is answered and the task of a job that was not
\* cancelled has run with the remote update and fetch succeeding and the
\* remote reporting ACTIVE, the job's record is 'completed' and the campaign
\* record is ACTIVE.
C10_RunEndsCompleted ==
  \A j \in JobIds :
    ( /\ Free /\ task[j].pc = "done" /\ task[j].result = "success"
      /\ cancelOk[j] = 0 /\ OnlyActive(task[j].campaign_id) )
    => /\ StatusOf(schedules, j) = "completed"
       /\ campaigns[task[j].campaign_id].status = "ACTIVE"

\* the fields of the record stored for job id jid, empty without a record
ErrorOf(s, jid) ==
  IF KeyIndex(s, jid) = 0 THEN <<>> ELSE s[KeyIndex(s, jid)].error

ExecutedAtOf(s, jid) ==
  IF KeyIndex(s, jid) = 0 THEN <<>> ELSE s[KeyIndex(s, jid)].executed_at

\* C11: once the task of a job has ended and the request in flight is
\* answered, the job's record is 'failed' with the exception's message when
\* the task raised, and 'completed' with an executed_at when it returned.
C11_OutcomeRecorded ==
  \A j \in JobIds :
    (Free /\ task[j].pc = "done") =>
      /\ task[j].result = "raised" =>
           StatusOf(schedules, j) = "failed" /\ ErrorOf(schedules, j) # <<>>
      /\ task[j].result = "success" =>
           StatusOf(schedules, j) = "completed"
             /\ ExecutedAtOf(schedules, j) # <<>>

\* C12: a task saves the campaign record only after its remote update and
\* fetch succeeded, and marks a record 'completed' only after it saved the
\* campaign record.
C12_UpdateFetchCampaignThenJob ==
  /\ [](\A j \in JobIds :
          task[j].pc \in {"loadCamp", "saveCamp", "saveSched"} =>
            task[j].updated /\ task[j].meta_status # "")
  /\ [][\A j \in JobIds :
          (task[j].pc = "saveCamp" /\ campaigns' # campaigns) =>
            task[j].updated /\ task[j].meta_status # ""]_vars
  /\ [][\A j \in JobIds :
          ( /\ task[j].pc = "saveSched" /\ task'[j].pc = "done"
            /\ task[j].schedule_key # 0
            /\ StatusOf(schedules', task[j].schedule_key) = "completed" )
          => task[j].campaign_id \in DOMAIN task[j].campaigns]_vars

\* C13: at most one worker executes the task of a given job id, and at most
\* PoolSize (10) tasks execute at the same time.
C13_OneWorkerPerJobWithinPool ==
  /\ \A j \in PoolJobIds : executing[j] <= 1
  /\ Busy <= PoolSize

\* the pool is full and a submitted task waits for a thread
C13_Witness == Busy = PoolSize /\ work_queue # <<>>

\* C14: cancel_job returns True exactly when the job was armed, its task has
\* not started, it was not dropped or cancelled before, and the call removes
\* it from the store; when it returns False the store, the tasks and the
\* records are left as they were; a job whose cancel returned True never
\* starts.
C14_CancelJobIff ==
  /\ [][(h.op = "cancel" /\ h.pc = "cancel" /\ h' # h) =>
          LET jid == h.job_id
              pendingArmed == /\ jid < nextJob
                              /\ runs[jid] = 0
                              /\ jid \notin missed
                              /\ cancelOk[jid] = 0
          IN IF pendingArmed
             THEN /\ cancelOk'[jid] = 1
                  /\ jid \in DOMAIN jobs /\ jid \notin DOMAIN jobs'
                  /\ h'.pc = "save"
             ELSE /\ cancelOk' = cancelOk
                  /\ h'.code = 500
                  /\ jobs' = jobs /\ task' = task /\ schedules' = schedules]_vars
  /\ [](\A j \in JobIds :
          cancelOk[j] > 0 => runs[j] = 0 /\ j \notin DOMAIN jobs)

\* cancel_job has just returned True for a job whose task never started
C14_Witness ==
  /\ h.op = "cancel" /\ h.pc = "save"
  /\ cancelOk[h.job_id] = 1 /\ runs[h.job_id] = 0
  /\ \E k \in JobIds : runs[k] > 0

\* C15: an upload attempt that fails with a transport error is followed by
\* another attempt while fewer than three were made, and fails the upload
\* step only at the third attempt.
C15_TransportErrorRetried ==
  [][\A r \in Requests :
       ( /\ h.op = "create" /\ h.pc = "video_id" /\ h.req = r
         /\ issued'[r] # issued[r]
         /\ upload_raised'[r] = "RequestException" )
       => IF h.attempt < MaxUploadAttempts
          THEN h'.pc = "video_id" /\ h'.attempt = h.attempt + 1 /\ pipe'[r] = pipe[r]
          ELSE pipe'[r] = "raised"]_vars

\* the number of upload requests issued for run r
Uploads(r) == Cardinality({i \in 1..Len(issued[r]) : issued[r][i] = "video_id"})

\* C16: a run issues at most three upload requests; an attempt the platform
\* rejected ends the upload step, and no request follows it.
C16_BoundedNoRetryOnRejection ==
  /\ [](\A r \in Requests : Uploads(r) <= MaxUploadAttempts)
  /\ [][\A r \in Requests :
          ( /\ h.op = "create" /\ h.pc = "video_id" /\ h.req = r
            /\ issued'[r] # issued[r]
            /\ upload_raised'[r] = "MetaAPIError" )
          => pipe'[r] = "raised" /\ h'.pc = "done"]_vars
  /\ [][\A r \in Requests :
          (pipe[r] = "raised" /\ upload_raised[r] = "MetaAPIError")
          => issued'[r] = issued[r]]_vars

\* the platform rejected the only upload attempt of a run, and the run ended
C16_Witness ==
  \E r \in Requests :
    /\ upload_raised[r] = "MetaAPIError" /\ pipe[r] = "raised"
    /\ issued[r] = <<"video_id">>
    /\ h.pc = "done" /\ h.code = 500

\* C17: update_campaign_status with a status other than ACTIVE, PAUSED and
\* ARCHIVED raises and issues no remote request; with one of the three it
\* issues exactly one remote request.
C17_StatusCheckedBeforeRequest ==
  \A i \in 1..Len(status_log) :
    IF status_log[i].status \in {"ACTIVE", "PAUSED", "ARCHIVED"}
    THEN status_log[i].requests = 1
    ELSE status_log[i].raised /\ status_log[i].requests = 0

\* one call with a status the platform does not know, one with ARCHIVED
C17_Witness ==
  \E i, k \in 1..Len(status_log) :
    /\ status_log[i].status = "DELETED" /\ status_log[i].raised
    /\ status_log[k].status = "ARCHIVED" /\ ~status_log[k].raised

\* the fields of the platform's answer that this record does not hold yet
Differing(rec, meta) ==
  {f \in {"status", "campaign_name", "daily_budget"} :
     CASE f = "status" -> meta.status # rec.status
       [] f = "campaign_name" -> meta.name # rec.campaign_name
       [] f = "daily_budget" -> meta.daily_budget # rec.daily_budget}

\* C18: a sync that succeeds returns exactly the fields whose value on the
\* platform differed from the stored record before the call (none of them
\* for an unchanged campaign), and leaves the record equal to the platform
\* on name, status and daily budget.
C18_SyncReturnsDifference ==
  [][(sync_response' # sync_response /\ sync_response'.code = 200) =>
       /\ DOMAIN sync_response'.changes = Differing(campaign_data, meta_data)
       /\ campaign_data'.status = meta_data.status
       /\ campaign_data'.campaign_name = meta_data.name
       /\ campaign_data'.daily_budget = meta_data.daily_budget]_vars

\* both operations are over and both fetched the same status
BothObserved(X) ==
  \A t \in Savers : th[t].pc \in {"done", "failed"} /\ th[t].seen = X

\* C19: when two load-fetch-save operations on the campaign overlap and
\* both fetched status X, then after both are over neither has failed, and
\* the stored file is the dump of one complete mapping with status X.
C19_OverlappingSyncsConverge ==
  \A X \in RemoteStatuses :
    BothObserved(X) =>
      /\ \A t \in Savers : th[t].pc = "done"
      /\ Parses(Content) /\ Parse(Content).status = X

\* the mappings whose save has begun
PassedToSave == {th[t].data : t \in {u \in Savers : th[u].fd # NoFile}}

\* C20: what a load finds is at every moment the dump of the first mapping
\* or of a mapping passed whole to a save, and the content changes only by
\* the replace of a save that succeeds, to that save's mapping; so a save
\* that fails changes nothing.
C20_SaveIsAtomic ==
  /\ [](\E d \in PassedToSave \cup {FirstMapping} : Content = Serialize(d))
  /\ [][Content' # Content =>
          \E t \in Savers :
            /\ th[t].pc = "replace" /\ th'[t].pc = "done"
            /\ Content' = Serialize(th[t].data)]_vars

\* C21: a task that fails leaves the scheduler running, and its failure
\* handling does not take the record of another job out of the terminal
\* status that job has reached.
C21_FailureIsContained ==
  /\ [](running)
  /\ [][\A j, k \in JobIds :
          ( /\ j # k
            /\ task[j].pc = "except" /\ task'[j].pc = "done"
            /\ StatusOf(schedules, k) \in Terminal )
          => StatusOf(schedules', k) \in Terminal]_vars

C23_SameInstantInCheckAndTimer ==
  /\ [][(h.pc = "done" /\ h'.op = "schedule" /\ h'.pc = "load") =>
          /\ jobs'[h'.job_id].run_date = InstantOf(h'.at)
          /\ jobs'[h'.job_id].run_date > now]_vars
  /\ [][(h.pc = "done" /\ h'.pc = "done" /\ h' # h) => h'.code # 500]_vars

\* C24: the start_time sent with the adset denotes the instant that was
\* supplied (a naive one read as UTC+8, an aware one as given) and carries
\* the offset +0800; without a supplied instant no start_time is sent.
C24_AdsetStartIsTheInstant ==
  \A r \in Requests :
    adset_sent[r] # <<>> =>
      LET sent == adset_sent[r][1]
      IN IF sent.at.kind = "none"
         THEN ~sent.start_time.set
         ELSE /\ sent.start_time.set
              /\ sent.start_time.utcoffset = SGT_OFFSET
              /\ sent.start_time.wall - sent.start_time.utcoffset
                   = InstantOf(sent.at)

\* C25: create_campaign stores the campaign as PAUSED and answers 200; with a
\* start_time strictly in the future it registers one activation job and
\* one 'pending' schedule record for it, and with none, or one not in the
\* future, it registers no job and writes no schedule record.
InFuture(at) == at.kind # "none" /\ InstantOf(at) > now

C25_CreateSchedulesFutureStart ==
  /\ [][(h.op = "create" /\ h.pc = "store" /\ h' # h) =>
          /\ h.campaign_id \in DOMAIN campaigns'
          /\ campaigns'[h.campaign_id].status = "PAUSED"
          /\ IF InFuture(h.at)
             THEN h'.pc = "arm"
             ELSE /\ h'.pc = "done" /\ h'.code = 200
                  /\ jobs' = jobs /\ schedules' = schedules]_vars
  /\ [][(h.op = "create" /\ h.pc = "saveSchedules" /\ h' # h) =>
          /\ h'.pc = "done" /\ h'.code = 200
          /\ StatusOf(schedules', h.job_id) = "pending"
          /\ Len(schedules') = Len(schedules) + 1]_vars

\* C26: every campaign, adset and ad of the pipeline is created with status
\* PAUSED, the record is stored with status PAUSED, and the stored status
\* of a campaign becomes ACTIVE only in the save of an immediate activation
\* of it, of an activation task for it, or of a sync of it that saw ACTIVE.
StoredStatus(cs, c) == IF c \in DOMAIN cs THEN cs[c].status ELSE "absent"

ByActivation(c) ==
  h.op = "activate" /\ h.pc = "save" /\ h.campaign_id = c /\ h' # h

ByTask(c) ==
  \E j \in JobIds :
    task[j].pc = "saveCamp" /\ task[j].campaign_id = c /\ task'[j] # task[j]

BySync(c) ==
  /\ h.op = "sync" /\ h.pc = "save" /\ h.campaign_id = c /\ h' # h
  /\ h.meta_status = "ACTIVE"

C26_OnlyActivationActivates ==
  /\ [](\A r \in Requests : \A i \in DOMAIN sent_status[r] :
          sent_status[r][i] = "PAUSED")
  /\ [][(h.op = "create" /\ h.pc = "store" /\ h' # h /\ h'.code # 500) =>
          StoredStatus(campaigns', h.campaign_id) = "PAUSED"]_vars
  /\ [][\A c \in Campaigns :
          ( /\ StoredStatus(campaigns', c) = "ACTIVE"
            /\ StoredStatus(campaigns, c) # "ACTIVE" )
          => ByActivation(c) \/ ByTask(c) \/ BySync(c)]_vars

\* C27: a persisted schedule record is removed or altered only by a step of
\* its own job's task or of its own cancellation, in every interleaving of
\* handlers and worker threads.
RecordOf(s, jid) == IF KeyIndex(s, jid) = 0 THEN <<>> ELSE <<s[KeyIndex(s, jid)]>>

C27_RecordChangedOnlyByOwnJob ==
  [][\A k \in JobIds :
       ( /\ RecordOf(schedules, k) # <<>>
         /\ RecordOf(schedules', k) # RecordOf(schedules, k) )
       => \/ task'[k] # task[k]
          \/ h.op = "cancel" /\ h.job_id = k /\ h' # h]_vars

\* C28: a stored campaign record is never deleted or replaced and is changed
\* only by an activation or a sync of that campaign; its meta_ids stay what
\* they were at creation, also when a later create_campaign carries the
\* same campaign id.
C28_RecordKeptAndIdsFixed ==
  [][\A c \in Campaigns :
       c \in DOMAIN campaigns =>
         /\ c \in DOMAIN campaigns'
         /\ campaigns'[c].meta_ids = campaigns[c].meta_ids
         /\ campaigns'[c] # campaigns[c] =>
              ByActivation(c) \/ ByTask(c)
                \/ (h.op = "sync" /\ h.pc = "save" /\ h.campaign_id = c /\ h' # h)]_vars

\* C29: create_account for an id that is already stored answers 409 and
\* leaves the account store as it was; for a new id it stores that one
\* account and leaves every other account as it was.
C29_CreateAccountRejectsExisting ==
  [][account_response'.n # account_response.n =>
       LET id == account_response'.account_id
       IN IF id \in DOMAIN accounts
          THEN /\ account_response'.code = 409
               /\ accounts' = accounts
          ELSE /\ account_response'.code = 201
               /\ DOMAIN accounts' = DOMAIN accounts \cup {id}
               /\ accounts'[id] = account_response'.data
               /\ \A a \in DOMAIN accounts : accounts'[a] = accounts[a]]_vars

C29_Witness ==
  /\ account_response.code = 409
  /\ Cardinality(DOMAIN accounts) = 2
  /\ accounts[account_response.account_id] # account_response.data

\* C30: the task of job J writes its terminal status to the schedule record
\* whose job_id is J and to no other record, also when the campaign has
\* several records.
C30_TaskMarksOwnRecord ==
  [][\A j \in JobIds :
       ( /\ task[j].pc \in {"saveSched", "except"}
         /\ task'[j] # task[j]
         /\ schedules' # schedules )
       => /\ task[j].schedule_key = j
          /\ StatusOf(schedules', j) \in {"completed", "failed"}
          /\ \A k \in JobIds \ {j} :
               StatusOf(schedules', k) = StatusOf(task[j].schedules, k)]_vars

\* C31: the save of a sync, an immediate activation or an activation task
\* of campaign A leaves the stored record of every other campaign B as it
\* was just before the save, in every interleaving of a handler with the
\* worker threads.
SavesFor(a) ==
  \/ ByActivation(a)
  \/ ByTask(a)
  \/ h.op = "sync" /\ h.pc = "save" /\ h.campaign_id = a /\ h' # h

C31_OtherCampaignsUntouched ==
  [][\A a, b \in Campaigns :
       (a # b /\ b \in DOMAIN campaigns /\ SavesFor(a))
       => /\ b \in DOMAIN campaigns'
          /\ campaigns'[b] = campaigns[b]]_vars

\* C32: whenever no request and no task is in progress, every schedule
\* record with status 'pending' belongs to a job that is still armed in
\* the scheduler's job table.
C32_PendingMeansArmed ==
  (Free /\ TasksQuiet) =>
    \A i \in 1..Len(schedules) :
      schedules[i].status = "pending" => schedules[i].job_id \in DOMAIN jobs

\* C33: a schedule or create request that armed a timer and then ends in an
\* error response does not leave that timer armed.
C33_ErrorLeavesNoTimer ==
  [][( /\ h.op \in {"schedule", "create"} /\ h.job_id # 0
       /\ h' # h /\ h'.pc = "done" /\ h'.code >= 400 )
     => h.job_id \notin DOMAIN jobs']_vars

\* C34: once cancel_schedule for a campaign has reported success, no job
\* that was scheduled for that campaign before the cancellation gets its
\* remote activation done.
C34_NoActivationAfterCancel ==
  [][\A j \in JobIds :
       (j \in outlived /\ ~task[j].updated) => ~task'[j].updated]_vars

\* C35: a create_campaign request that is answered with an error has stored
\* no campaign record: the store holds what it held when the request began.
C35_FailedCreateStoresNothing ==
  [][( /\ h.op = "create" /\ h' # h
       /\ h'.pc = "done" /\ h'.code >= 400 )
     => h.req \notin stored']_vars

\* C36: an activation whose remote status update or whose remote fetch
\* failed does not write the campaign store: an immediate activation saves
\* only after both calls returned, and so does the activation task.
C36_FailedRemoteLeavesRecord ==
  /\ [][(h.op = "activate" /\ h' # h /\ h.pc = "remote" /\ h'.code = 500) =>
          h'.pc = "done" /\ campaigns' = campaigns]_vars
  /\ [][(h.op = "activate" /\ h' # h /\ campaigns' # campaigns) =>
          h.pc = "save" /\ h.meta_status \in {"ACTIVE", "PAUSED"}]_vars
  /\ [][\A j \in JobIds :
          (task'[j] # task[j] /\ campaigns' # campaigns) =>
            /\ task[j].pc = "saveCamp" /\ task[j].error = ""
            /\ task[j].updated
            /\ task[j].meta_status \in {"ACTIVE", "PAUSED"}]_vars
  /\ [][\A j \in JobIds :
          (task[j].pc = "remote" /\ task'[j].pc = "except") =>
            /\ task'[j].error \in {"update", "fetch"}
            /\ campaigns' = campaigns]_vars

C36_Witness ==
  /\ task[1].pc = "done" /\ task[1].result = "raised" /\ task[1].updated
  /\ StatusOf(schedules, 1) = "failed"
  /\ campaigns["c1"].status = "PAUSED" /\ campaigns["c1"].activated_at = <<>>

\* C37: a schedule record with status 'completed' implies that an activation
\* task has issued the update to ACTIVE for the remote campaign named in
\* that record, and that the update succeeded.
C37_CompletedMeansUpdated ==
  \A i \in 1..Len(schedules) :
    schedules[i].status = "completed" =>
      \E j \in JobIds :
        /\ task[j].updated
        /\ task[j].meta_campaign_id = schedules[i].meta_campaign_id

\* C38: get_campaign_status leaves the campaign store, the schedule store
\* and the scheduler's job table as they are, whether the remote fetch
\* succeeds or fails.
C38_StatusQueryWritesNothing ==
  [][((h.op = "status" \/ h'.op = "status") /\ h' # h)
     => /\ campaigns' = campaigns
        /\ schedules' = schedules
        /\ jobs' = jobs]_vars

C38_Witness ==
  /\ h.pc = "done" /\ h.code = 200 /\ h.meta_status = "ACTIVE"
  /\ jobs # EmptyMap
  /\ \E i \in 1..Len(schedules) : schedules[i].status = "pending"

====
